---------------------------- MODULE Spec2Model ----------------------------
(***************************************************************************)
(* A model of the crawling service of web_scrapper_crawl4ai:               *)
(*   app/crawler_service.py  CrawlerService (batch crawl, deep crawl)      *)
(*   app/routes.py           the /crawl-urls and /crawl-suburls handlers   *)
(* The renderer (crawl4ai's AsyncWebCrawler) is the environment: what it   *)
(* returns or raises for a fetch is chosen nondeterministically.           *)
(* Times are integers: the clock counts milliseconds, the rounded values   *)
(* of the responses count hundredths of a second.                          *)
(***************************************************************************)
EXTENDS Integers, Sequences, FiniteSets, TLC

(* ------------------------------ bounds --------------------------------- *)
\* longest urls list of a batch request
MaxUrls == 2
\* longest stream of page results of one deep crawl
MaxStream == 3

(* ------------------------ Python values -------------------------------- *)
\* An attribute of a renderer result is a tagged value; Absent is "the
\* object has no such attribute" (hasattr is false).
Absent == [t |-> "absent", s |-> "", b |-> FALSE, d |-> << >>]
PyNone == [t |-> "none", s |-> "", b |-> FALSE, d |-> << >>]
PyStr(str) == [t |-> "str", s |-> str, b |-> FALSE, d |-> << >>]
PyBool(bool) == [t |-> "bool", s |-> "", b |-> bool, d |-> << >>]
PyDict(dict) == [t |-> "dict", s |-> "", b |-> FALSE, d |-> dict]
EmptyDict == PyDict(<< >>)
PyList(list) == [t |-> "list", s |-> "", b |-> FALSE, d |-> list]

\* hasattr(result, attr)
HasAttr(result, attr) == result[attr].t # "absent"

\* Python truthiness of a value (the `if val:` and `not metadata` tests)
Truthy(val) ==
    CASE val.t = "str" -> val.s # ""
      [] val.t = "bool" -> val.b
      [] val.t \in {"dict", "list"} -> DOMAIN val.d # {}
      [] OTHER -> FALSE

\* isinstance(val, dict)
IsDict(val) == val.t = "dict"

\* str(val)
ToStr(val) ==
    CASE val.t = "str" -> val
      [] val.t = "bool" -> PyStr(IF val.b THEN "True" ELSE "False")
      [] val.t = "dict" -> PyStr(IF DOMAIN val.d = {} THEN "{}" ELSE "{...}")
      [] OTHER -> PyStr("None")

\* a renderer result object with every attribute the service looks at
BlankResult ==
    [url |-> Absent, success |-> Absent, metadata |-> Absent, title |-> Absent,
     markdown |-> Absent, html |-> Absent, text |-> Absent,
     markdown_content |-> Absent, html_content |-> Absent,
     text_content |-> Absent, links |-> Absent]

(* ------------------------------ time ----------------------------------- *)
\* round(num/den, 2) counted in hundredths: the integers nearest to num/den.
\* A value exactly half way between two hundredths goes where its binary
\* floating-point image lies, which may be either side.
Round2(num, den) ==
    {c \in (num \div den)..((num \div den) + 1) :
        2 * (IF c * den >= num THEN c * den - num ELSE num - c * den) <= den}

\* how long one call of the renderer may take, in milliseconds
Delays == {7, 15}


(* --------------------------- extraction -------------------------------- *)
Whitespace == {" ", "\t", "\n", "\r"}
CharAt(str, i) == SubSeq(str, i, i)

\* end of the line that position q of str lies on (the last position before
\* the next line break, or the end of the string)
LineEnd(str, q) ==
    IF \E e \in q..Len(str) : CharAt(str, e) = "\n"
    THEN (CHOOSE e \in q..Len(str) :
             /\ CharAt(str, e) = "\n"
             /\ \A f \in q..(e - 1) : CharAt(str, f) # "\n") - 1
    ELSE Len(str)

\* re.search(r'^#\s+(.+)$', str, re.MULTILINE) matches with '#' at p and
\* the group starting at q
HeadingAt(str, p, q) ==
    /\ CharAt(str, p) = "#"
    /\ p = 1 \/ CharAt(str, p - 1) = "\n"
    /\ q > p + 1
    /\ q <= Len(str)
    /\ \A w \in (p + 1)..(q - 1) : CharAt(str, w) \in Whitespace
    /\ CharAt(str, q) # "\n"

HasHeading(str) ==
    \E p \in 1..Len(str) : \E q \in 1..Len(str) : HeadingAt(str, p, q)

\* title_match.group(1): leftmost '#', longest run of white space, then the
\* rest of the line
HeadingTitle(str) ==
    LET p == CHOOSE p1 \in 1..Len(str) :
                 /\ \E q \in 1..Len(str) : HeadingAt(str, p1, q)
                 /\ \A p2 \in 1..(p1 - 1) :
                        ~ \E q \in 1..Len(str) : HeadingAt(str, p2, q)
        q == CHOOSE q1 \in 1..Len(str) :
                 /\ HeadingAt(str, p, q1)
                 /\ \A q2 \in (q1 + 1)..Len(str) : ~ HeadingAt(str, p, q2)
    IN  SubSeq(str, q, LineEnd(str, q))

\* the markdown branches of _extract_metadata: str(...) of a non-string
\* markdown value is what re.search would be given
TitleFromMarkdown(val) ==
    IF val.t = "str" /\ HasHeading(val.s)
    THEN PyDict([title |-> PyStr(HeadingTitle(val.s))])
    ELSE EmptyDict

\* CrawlerService._extract_metadata
ExtractMetadata(result) ==
    IF HasAttr(result, "metadata") /\ IsDict(result.metadata)
    THEN result.metadata
    ELSE IF HasAttr(result, "title")
    THEN PyDict([title |-> result.title])
    ELSE IF HasAttr(result, "markdown_content") /\ Truthy(result.markdown_content)
    THEN TitleFromMarkdown(result.markdown_content)
    ELSE IF HasAttr(result, "markdown") /\ Truthy(result.markdown)
    THEN TitleFromMarkdown(result.markdown)
    ELSE EmptyDict

\* the representations, in the order the code tries them
CanonAttrs == <<"markdown", "html", "text">>
AltAttrs == <<"markdown_content", "html_content", "text_content">>
\* f"{content_type}_content"
ContentField(attr) == attr \o "_content"

\* hasattr(result, attr) and its value is truthy
Filled(result, attr) ==
    /\ attr \in DOMAIN result
    /\ HasAttr(result, attr)
    /\ Truthy(result[attr])

\* (mutant) the alternate field name overwrites the canonical one
ExtractAllAlternateWins(result) ==
    LET names == {CanonAttrs[k] : k \in 1..3}
        alt == {a \in names : Filled(result, ContentField(a))}
        canon == {a \in names : a \notin alt /\ Filled(result, a)}
        content == [a \in canon \cup alt |->
                       IF a \in canon THEN ToStr(result[a])
                       ELSE ToStr(result[ContentField(a)])]
    IN  IF DOMAIN content # {} THEN PyDict(content) ELSE PyStr("")

\* content_type == "all": canonical names first, alternate names only
\* for a representation not yet present; an empty dict becomes ""
ExtractAll(result) ==
    LET canon == {a \in {CanonAttrs[k] : k \in 1..3} : Filled(result, a)}
        alt == {a \in {CanonAttrs[k] : k \in 1..3} :
                   a \notin canon /\ Filled(result, ContentField(a))}
        content == [a \in canon \cup alt |->
                       IF a \in canon THEN ToStr(result[a])
                       ELSE ToStr(result[ContentField(a)])]
    IN  IF DOMAIN content # {} THEN PyDict(content) ELSE PyStr("")

\* the first attribute of attrs that is filled, as a string; none: fallback
FirstFilled(result, attrs, fallback) ==
    IF \E k \in 1..Len(attrs) : Filled(result, attrs[k])
    THEN ToStr(result[attrs[CHOOSE k \in 1..Len(attrs) :
                          /\ Filled(result, attrs[k])
                          /\ \A j \in 1..(k - 1) : ~ Filled(result, attrs[j])]])
    ELSE fallback

\* (mutant) the *_content field names are never looked at
ExtractContentCanonicalOnly(result, content_type) ==
    IF content_type = "all" THEN ExtractAll(result)
    ELSE FirstFilled(result, <<content_type>> \o CanonAttrs, PyStr(""))

\* CrawlerService._extract_content
ExtractContent(result, content_type) ==
    IF content_type = "all" THEN ExtractAll(result)
    ELSE FirstFilled(result,
             <<content_type, ContentField(content_type)>> \o CanonAttrs \o AltAttrs,
             PyStr(""))

(* ------------------------------- links --------------------------------- *)
QuoteChars == {"\"", "'"}

\* url.startswith(('http://', 'https://', '/'))
StartsWith(str, prefix) ==
    Len(str) >= Len(prefix) /\ SubSeq(str, 1, Len(prefix)) = prefix
HasLinkPrefix(url) ==
    StartsWith(url, "http://") \/ StartsWith(url, "https://")
        \/ StartsWith(url, "/")

\* href=["']([^"']+)["'] matches at p: the position of its closing quote;
\* 0 when it does not match there
HrefEnd(str, p) ==
    IF /\ p + 7 <= Len(str)
       /\ SubSeq(str, p, p + 4) = "href="
       /\ CharAt(str, p + 5) \in QuoteChars
       /\ CharAt(str, p + 6) \notin QuoteChars
       /\ \E e \in (p + 7)..Len(str) : CharAt(str, e) \in QuoteChars
    THEN CHOOSE e \in (p + 7)..Len(str) :
             /\ CharAt(str, e) \in QuoteChars
             /\ \A f \in (p + 7)..(e - 1) : CharAt(str, f) \notin QuoteChars
    ELSE 0

\* re.findall(href_pattern, str), scanning from position p
RECURSIVE HrefFindAll(_, _)
HrefFindAll(str, p) ==
    IF p > Len(str) THEN << >>
    ELSE IF HrefEnd(str, p) > 0
    THEN <<SubSeq(str, p + 6, HrefEnd(str, p) - 1)>>
             \o HrefFindAll(str, HrefEnd(str, p) + 1)
    ELSE HrefFindAll(str, p + 1)

\* \[([^\]]+)\]\(([^)]+)\) matches at p: the position of the "]" that
\* closes the text; 0 when it does not match there
LinkTextEnd(str, p) ==
    IF /\ p + 5 <= Len(str)
       /\ CharAt(str, p) = "["
       /\ CharAt(str, p + 1) # "]"
       /\ \E e \in (p + 2)..Len(str) : CharAt(str, e) = "]"
    THEN LET e == CHOOSE e1 \in (p + 2)..Len(str) :
                      /\ CharAt(str, e1) = "]"
                      /\ \A f \in (p + 2)..(e1 - 1) : CharAt(str, f) # "]"
         IN  IF /\ e + 3 <= Len(str)
                /\ CharAt(str, e + 1) = "("
                /\ CharAt(str, e + 2) # ")"
                /\ \E g \in (e + 3)..Len(str) : CharAt(str, g) = ")"
             THEN e ELSE 0
    ELSE 0

\* the position of the ")" that closes a link whose text ends at e
LinkUrlEnd(str, e) ==
    CHOOSE g \in (e + 3)..Len(str) :
        /\ CharAt(str, g) = ")"
        /\ \A f \in (e + 3)..(g - 1) : CharAt(str, f) # ")"

\* the urls of re.findall(link_pattern, str), scanning from position p
RECURSIVE MarkdownFindAll(_, _)
MarkdownFindAll(str, p) ==
    IF p > Len(str) THEN << >>
    ELSE IF LinkTextEnd(str, p) > 0
    THEN LET e == LinkTextEnd(str, p)
         IN  <<SubSeq(str, e + 2, LinkUrlEnd(str, e) - 1)>>
                 \o MarkdownFindAll(str, LinkUrlEnd(str, e) + 1)
    ELSE MarkdownFindAll(str, p + 1)

\* [url for url in matches if url.startswith(...)]
RECURSIVE KeepPrefixed(_)
KeepPrefixed(matches) ==
    IF matches = << >> THEN << >>
    ELSE (IF HasLinkPrefix(Head(matches)) THEN <<Head(matches)>> ELSE << >>)
             \o KeepPrefixed(Tail(matches))

\* list(result.links.keys()): the keys in the order of the dict, which
\* the dicts of this model do not record
KeysOf(dict) == CHOOSE keys \in [1..Cardinality(DOMAIN dict) -> DOMAIN dict] :
                    \A a \in DOMAIN dict : \E k \in DOMAIN keys : keys[k] = a

\* link.strip() is not empty
NotBlank(link) == \E k \in 1..Len(link) : CharAt(link, k) \notin Whitespace

\* the loop that builds unique_links, over the first k links
RECURSIVE UniqueLinks(_, _)
UniqueLinks(links, k) ==
    IF k = 0 THEN << >>
    ELSE LET unique == UniqueLinks(links, k - 1)
         IN  IF (\A j \in 1..Len(unique) : unique[j] # links[k])
                    /\ NotBlank(links[k])
             THEN Append(unique, links[k])
             ELSE unique

\* links after the block that reads result.links
StructuredLinks(result) ==
    IF HasAttr(result, "links") /\ result.links.t = "list" THEN result.links.d
    ELSE IF HasAttr(result, "links") /\ result.links.t = "dict"
    THEN KeysOf(result.links.d)
    ELSE << >>

\* links after the block that reads the html
HtmlLinks(result, links) ==
    IF links = << >> /\ Filled(result, "html_content")
    THEN KeepPrefixed(HrefFindAll(result.html_content.s, 1))
    ELSE IF links = << >> /\ Filled(result, "html")
    THEN KeepPrefixed(HrefFindAll(result.html.s, 1))
    ELSE links

\* links after the block that reads the markdown
MarkdownLinks(result, links) ==
    IF links = << >> /\ Filled(result, "markdown_content")
    THEN KeepPrefixed(MarkdownFindAll(result.markdown_content.s, 1))
    ELSE IF links = << >> /\ Filled(result, "markdown")
    THEN KeepPrefixed(MarkdownFindAll(result.markdown.s, 1))
    ELSE links

\* CrawlerService._extract_links
ExtractLinks(result) ==
    LET links == MarkdownLinks(result, HtmlLinks(result, StructuredLinks(result)))
    IN  UniqueLinks(links, Len(links))

(* ------------------------------ state ---------------------------------- *)
VARIABLES
    crawler,          \* CrawlerService.crawler: "None" or the renderer made
    instances,        \* how many AsyncWebCrawler objects were created
    now,              \* time.time(), in milliseconds
    bpc,              \* where the /crawl-urls request is
    urls,             \* its urls list
    content_type,     \* its content_type
    kwargs,           \* the keyword arguments the route passes on
    run_config,       \* the run_config handed to the renderer with each url
    i,                \* how many urls the loop of crawl_urls has handled
    results,          \* the results list of crawl_urls
    fetchLog,         \* the urls the renderer was asked to fetch, in order
    outcomes,         \* what the renderer did for each of them
    total_start_time, \* total_start_time of the running request
    bresponse,        \* the dict crawl_urls returned
    bstatus,          \* the HTTP status of the /crawl-urls answer (0: none yet)
    dpc,              \* where the /crawl-suburls request is
    request,          \* its parameters
    crawl_strategy,   \* the deep crawl strategy object handed to the renderer
    config,           \* the config handed to the renderer with the seed
    url_filter,       \* the patterns of the filter _build_url_filter built
    stream,           \* the page results the renderer streamed so far
    dfailure,         \* what made crawl_sub_urls or its route fail, if anything
    dresponse,        \* the dict crawl_sub_urls returned
    dstatus,          \* the HTTP status of the /crawl-suburls answer (0: none yet)
    xpc,              \* which extraction function was applied ("input": none)
    xresult,          \* the renderer result it was given
    xformat,          \* the content_type it was given
    xout,             \* what it returned
    cpc,              \* where each concurrent /crawl-urls request is
    curls,            \* its urls list
    ci,               \* how many urls its loop has handled
    cresults,         \* its results list
    coutcomes,        \* what the renderer did for each of its urls
    url_start_time,   \* url_start_time of its running iteration
    ctotal_start_time,\* its total_start_time
    cresponse,        \* the dict its crawl_urls call returned
    cstatus,          \* the HTTP status of its answer (0: none yet)
    cfetchLog,        \* the requests whose fetches completed, in order
    rpc,              \* where the wrapper made by retry_with_backoff is
    coroutine,        \* asyncio.iscoroutinefunction(func)
    max_retries,      \* its max_retries
    base_delay,       \* its base_delay, in seconds
    attempt,          \* the attempt of its loop
    calls,            \* what each call of func did, in order
    sleeps,           \* the delays it slept, in order
    rresult,          \* what the wrapper returned or raised
    closed,           \* close() of the crawler has run to its end
    health,           \* the last answer of get_health_status
    healthInstances,  \* how many renderers had been made when it was given
    lastCall          \* the last call of initialize, shutdown or health

batchVars == <<bpc, urls, content_type, kwargs, run_config, i, results,
               fetchLog, outcomes, bresponse, bstatus>>
deepVars == <<dpc, request, crawl_strategy, config, url_filter, stream,
              dfailure, dresponse, dstatus>>
extractVars == <<xpc, xresult, xformat, xout>>
\* the variables the two request handlers above do not touch
concVars == <<cpc, curls, ci, cresults, coutcomes, url_start_time,
              ctotal_start_time, cresponse, cstatus, cfetchLog>>
retryVars == <<rpc, coroutine, max_retries, base_delay, attempt, calls,
               sleeps, rresult>>
lifeVars == <<closed, health, healthInstances, lastCall>>
otherVars == <<extractVars, concVars, retryVars, lifeVars>>

NoResponse == [results |-> << >>, success |-> FALSE,
               total_execution_time_seconds |-> 0, urls_processed |-> 0,
               average_time_per_url |-> 0]

(* ---------------------------- batch crawl ------------------------------ *)
BatchUrls == {"https://a.test/p1", "https://a.test/p2"}
ContentTypes == {"markdown", "html", "text", "all"}

\* a page that rendered, with the fields of a crawl4ai CrawlResult
PageOk ==
    [BlankResult EXCEPT !.success = PyBool(TRUE),
                        !.metadata = PyDict([title |-> PyStr("Home")]),
                        !.markdown = PyStr("# Home"),
                        !.html = PyStr("<h1>Home</h1>")]
\* a page the renderer reports as failed
PageFailed ==
    [BlankResult EXCEPT !.success = PyBool(FALSE),
                        !.metadata = PyNone,
                        !.markdown = PyNone,
                        !.html = PyStr("")]
\* a result object of the older shape: no success attribute, *_content names
PageBare ==
    [BlankResult EXCEPT !.title = PyStr("T"),
                        !.html_content = PyStr("<p>x</p>")]
BatchPages == {PageOk, PageFailed, PageBare}

\* what one iteration of the loop can meet: the renderer raises, or it
\* returns a page and the extraction raises, or it returns a page
RaiseKinds == {"fetch raised", "extraction raised"}
\* str(url_error): the text of the exception, empty for one raised without
\* a message (a bare TimeoutError)
Messages == {"", "net::ERR_NAME_NOT_RESOLVED"}
FetchOutcomes ==
    [kind : RaiseKinds, page : {BlankResult}, message : Messages]
        \cup [kind : {"page"}, page : BatchPages, message : {""}]

\* js_timeout of the request models: an int from 1000 to 60000
JsTimeouts == {1000, 60000}
\* the /crawl-urls requests tried: every content_type, either timeout
BatchRequests ==
    {[content_type |-> "markdown", kwargs |-> [js_timeout |-> 1000]],
     [content_type |-> "html", kwargs |-> [js_timeout |-> 60000]],
     [content_type |-> "text", kwargs |-> [js_timeout |-> 1000]],
     [content_type |-> "all", kwargs |-> [js_timeout |-> 60000]]}
\* no request arrived yet
NoKwargs == [js_timeout |-> 0]

\* CrawlerService._build_run_config: the cache mode and the timeout of the
\* CrawlerRunConfig it builds
BuildRunConfig(kw) ==
    [cache_mode |-> "BYPASS", page_timeout |-> kw.js_timeout]
\* no config was built
NoRunConfig == << >>

\* (mutant) initialize() is called whether or not a crawler exists
InstancesAfterInitAlways(cr, n) == n + 1

\* if not self.crawler: await self.initialize(): the number of renderers
\* made so far, after the check at the head of a crawl call
InstancesAfterInit(cr, n) == IF cr = "None" THEN n + 1 ELSE n

\* the entry appended when the iteration ran through
OkEntry(url, result, ctype, t) ==
    [url |-> url,
     metadata |-> ExtractMetadata(result),
     content |-> ExtractContent(result, ctype),
     success |-> IF HasAttr(result, "success") THEN result.success
                 ELSE PyBool(TRUE),
     execution_time_seconds |-> t]

\* (mutant) the except branch keeps the success flag set
ErrorEntryAsSuccess(url, t, err) ==
    [url |-> url,
     metadata |-> EmptyDict,
     content |-> PyStr(""),
     success |-> PyBool(TRUE),
     execution_time_seconds |-> t,
     error |-> err]

\* the entry appended by the except branch of the iteration
ErrorEntry(url, t, err) ==
    [url |-> url,
     metadata |-> EmptyDict,
     content |-> PyStr(""),
     success |-> PyBool(FALSE),
     execution_time_seconds |-> t,
     error |-> err]

\* (mutant) any(...) in place of all(...)
AnySuccess(rs) == \E k \in 1..Len(rs) : Truthy(rs[k].success)

\* all(r["success"] for r in results)
AllSuccess(rs) == \A k \in 1..Len(rs) : Truthy(rs[k].success)

\* (mutant) round(...) without its digits argument: whole seconds
AverageTimeWholeSeconds(total, total_urls) ==
    IF total_urls > 0 THEN {100 * c : c \in Round2(total, 100 * total_urls)}
    ELSE {0}

\* round(total_execution_time / total_urls, 2) if total_urls > 0 else 0
AverageTime(total, total_urls) ==
    IF total_urls > 0 THEN Round2(total, total_urls) ELSE {0}

\* the entry one iteration appends for url, given what the renderer did
IterationEntry(url, o, ctype, t) ==
    IF o.kind = "page" THEN OkEntry(url, o.page, ctype, t)
    ELSE ErrorEntry(url, t, o.message)

\* (mutant) a url that already has an entry gets no second one
AppendResultOncePerUrl(rs, entry) ==
    IF \E k \in 1..Len(rs) : rs[k].url = entry.url THEN rs
    ELSE Append(rs, entry)

\* results.append(...) of the iteration, in either branch
AppendResult(rs, entry) == Append(rs, entry)

\* POST /crawl-urls arrives; crawl_urls runs up to its first fetch.
\* A crawler that is still None is initialized first.
BatchStart(us, ctype, kw) ==
    /\ bpc = "idle"
    /\ urls' = us
    /\ content_type' = ctype
    /\ kwargs' = kw
    /\ total_start_time' = now
    /\ crawler' = "renderer"
    /\ instances' = InstancesAfterInit(crawler, instances)
    /\ run_config' = BuildRunConfig(kw)
    /\ bpc' = "loop"
    /\ UNCHANGED <<otherVars, deepVars, now, i, results, fetchLog, outcomes, bresponse,
                   bstatus>>

\* ... and initialize() raises: crawl_urls re-raises, the route answers 500
BatchStartInitFails(us, ctype, kw) ==
    /\ bpc = "idle"
    /\ crawler = "None"
    /\ urls' = us
    /\ content_type' = ctype
    /\ kwargs' = kw
    /\ total_start_time' = now
    /\ bpc' = "raised"
    /\ bstatus' = 500
    /\ UNCHANGED <<otherVars, deepVars, crawler, instances, now, run_config, i, results,
                   fetchLog, outcomes, bresponse>>

\* one iteration of the for loop: the fetch, the extraction, the append
\* (the crawler is set once the loop runs, so "Crawler is None" is never
\* raised)
BatchFetch(o, d) ==
    /\ bpc = "loop"
    /\ i < Len(urls)
    /\ i' = i + 1
    /\ now' = now + d
    /\ fetchLog' = Append(fetchLog, urls[i + 1])
    /\ outcomes' = Append(outcomes, o)
    /\ \E t \in Round2(d, 10) :
           results' = AppendResult(results,
                          IterationEntry(urls[i + 1], o, content_type, t))
    /\ UNCHANGED <<otherVars, deepVars, crawler, instances, bpc, urls, content_type,
                   kwargs, run_config, total_start_time, bresponse, bstatus>>

\* the loop is over: crawl_urls returns its dict, the route answers
BatchReturn ==
    /\ bpc = "loop"
    /\ i = Len(urls)
    /\ \E total \in Round2(now - total_start_time, 10) :
       \E avg \in AverageTime(total, Len(urls)) :
           bresponse' = [results |-> results,
                         success |-> AllSuccess(results),
                         total_execution_time_seconds |-> total,
                         urls_processed |-> Len(urls),
                         average_time_per_url |-> avg]
    /\ bpc' = "done"
    /\ bstatus' = 200
    /\ UNCHANGED <<otherVars, deepVars, crawler, instances, now, urls, content_type,
                   kwargs, run_config, i, results, fetchLog, outcomes,
                   total_start_time>>

(* ----------------------------- deep crawl ------------------------------ *)
\* str contains sub
Contains(str, sub) ==
    \E a \in 1..Len(str) : \E z \in a..Len(str) : SubSeq(str, a, z) = sub

\* str ends with sub
EndsWith(str, sub) ==
    Len(str) >= Len(sub) /\ SubSeq(str, Len(str) - Len(sub) + 1, Len(str)) = sub

\* default_exclude_patterns: the words of the patterns r".*word.*" ...
DefaultExcludeWords ==
    <<"login", "signup", "register", "sign-in", "sign-up", "auth", "password",
      "reset", "logout", "admin", "dashboard", "profile", "account",
      "checkout", "cart", "payment", "billing", "subscribe", "newsletter",
      "contact", "support", "help", "faq", "sitemap", "robots">>
\* ... and the extensions of r".*\.(pdf|doc|...)$"
DefaultExcludeExtensions ==
    <<"pdf", "doc", "docx", "xls", "xlsx", "ppt", "pptx", "zip", "rar", "exe",
      "dmg">>

\* a pattern of the filter: [kind |-> "word" | "extension", text |-> ...]
WordPattern(word) == [kind |-> "word", text |-> word]
ExtensionPattern(ext) == [kind |-> "extension", text |-> ext]

\* CrawlerService._build_url_filter: the default patterns, then the
\* caller's
BuildUrlFilter(exclude_patterns) ==
    [k \in 1..Len(DefaultExcludeWords) |-> WordPattern(DefaultExcludeWords[k])]
        \o [k \in 1..Len(DefaultExcludeExtensions) |->
               ExtensionPattern(DefaultExcludeExtensions[k])]
        \o [k \in 1..Len(exclude_patterns) |-> WordPattern(exclude_patterns[k])]

\* the url matches the pattern
PatternMatches(pattern, url) ==
    IF pattern.kind = "word" THEN Contains(url, pattern.text)
    ELSE EndsWith(url, "." \o pattern.text)

\* the url matches a pattern of the filter
IsExcluded(url, patterns) ==
    \E k \in 1..Len(patterns) : PatternMatches(patterns[k], url)

\* the strategy class chosen from the request: dfs, best_first, else bfs
StrategyClass(strategy) ==
    IF strategy = "dfs" THEN "DFSDeepCrawlStrategy"
    ELSE IF strategy = "best_first" THEN "BestFirstCrawlingStrategy"
    ELSE "BFSDeepCrawlStrategy"

\* the strategy object crawl_sub_urls builds: the filter_chain argument is
\* commented out in all three branches, so the strategy gets no filter
MakeStrategy(strategy, depth, max_pages) ==
    [class |-> StrategyClass(strategy), max_depth |-> depth,
     max_pages |-> max_pages, filter_chain |-> << >>]
NoStrategy == MakeStrategy("", 0, 0)

Seed == "https://a.test"
DeepUrls == {Seed, "https://a.test/p1", "https://a.test/login"}
DeepRequests ==
    [url : {Seed}, depth : {1}, max_pages : {1, 10},
     strategy : {"bfs", "dfs", "best_first"},
     exclude_patterns : {<< >>, <<"p1">>}, js_timeout : JsTimeouts]
NoRequest == [url |-> "", depth |-> 0, max_pages |-> 0, strategy |-> "",
              exclude_patterns |-> << >>, js_timeout |-> 0]

\* the CrawlerRunConfig crawl_sub_urls builds: the arguments it passes
DeepRunConfig(strategy) ==
    [deep_crawl_strategy |-> strategy,
     scraping_strategy |-> "LXMLWebScrapingStrategy",
     stream |-> TRUE]

\* the page results the renderer may stream: with or without a url, with
\* a metadata dict, with metadata None (a failed page), or of the older
\* shape with a title and no metadata
DeepPages ==
    {[BlankResult EXCEPT !.url = u, !.success = PyBool(TRUE),
                         !.metadata = PyDict([title |-> PyStr("Home")])] :
        u \in {PyStr(x) : x \in DeepUrls} \cup {Absent}}
    \cup {[BlankResult EXCEPT !.url = u, !.success = PyBool(FALSE),
                              !.metadata = PyNone] :
        u \in {PyStr(x) : x \in DeepUrls}}
    \cup {[BlankResult EXCEPT !.url = PyStr("https://a.test/p1"),
                              !.title = PyStr("T")],
          [BlankResult EXCEPT !.url = PyStr("https://a.test/p1"),
                              !.success = PyBool(TRUE),
                              !.metadata = EmptyDict]}

\* all_urls after the loop over results
AllUrls(rs) == {rs[k].url.s : k \in {j \in 1..Len(rs) : HasAttr(rs[j], "url")}}

\* the sequences that list every element of set once: a Python set is
\* iterated in an order the program does not control
RECURSIVE Orders(_)
Orders(set) ==
    IF set = {} THEN {<< >>}
    ELSE UNION {{<<x>> \o rest : rest \in Orders(set \ {x})} : x \in set}

\* (mutant) the seed is not filtered out
SubUrlsKeepSeed(all_urls, url) == Orders(all_urls)

\* sub_urls = [found_url for found_url in all_urls if found_url != url]
SubUrls(all_urls, url) == Orders({found_url \in all_urls : found_url # url})

\* the metadata after the first k results have been processed
RECURSIVE MetadataAfter(_, _)
MetadataAfter(rs, k) ==
    IF k = 0 THEN EmptyDict
    ELSE LET metadata == MetadataAfter(rs, k - 1)
             result == rs[k]
         IN  IF ~ Truthy(metadata) /\ HasAttr(result, "metadata")
             THEN result.metadata
             ELSE IF ~ Truthy(metadata) /\ HasAttr(result, "title")
             THEN PyDict([title |-> result.title])
             ELSE metadata

\* CrawlSubUrlsResponse(**result): metadata must be a dict (the other
\* fields have the declared types by construction)
ValidSubUrlsResponse(resp) == IsDict(resp.metadata)

NoDeepResponse == [url |-> "", sub_urls |-> << >>, metadata |-> EmptyDict,
                   success |-> FALSE, urls_found |-> 0, crawl_depth |-> 0,
                   max_pages |-> 0, strategy |-> ""]

\* POST /crawl-suburls arrives; crawl_sub_urls runs up to the call of the
\* renderer. A crawler that is still None is initialized first.
DeepStart(req) ==
    /\ dpc = "idle"
    /\ request' = req
    /\ crawler' = "renderer"
    /\ instances' = InstancesAfterInit(crawler, instances)
    /\ url_filter' = BuildUrlFilter(req.exclude_patterns)
    /\ crawl_strategy' = MakeStrategy(req.strategy, req.depth, req.max_pages)
    /\ config' = DeepRunConfig(crawl_strategy')
    /\ dpc' = "streaming"
    /\ UNCHANGED <<otherVars, now, total_start_time, batchVars, stream, dfailure,
                   dresponse, dstatus>>

\* ... and initialize() raises: crawl_sub_urls re-raises, the route answers 500
DeepStartInitFails(req) ==
    /\ dpc = "idle"
    /\ crawler = "None"
    /\ request' = req
    /\ dpc' = "raised"
    /\ dfailure' = "initialize"
    /\ dstatus' = 500
    /\ UNCHANGED <<otherVars, now, total_start_time, batchVars, crawler, instances, crawl_strategy,
                   config, url_filter, stream, dresponse>>

\* the renderer streams one more page result
DeepResult(result) ==
    /\ dpc = "streaming"
    /\ Len(stream) < MaxStream
    /\ stream' = Append(stream, result)
    /\ UNCHANGED <<otherVars, now, total_start_time, batchVars, crawler, instances, dpc, request,
                   crawl_strategy, config, url_filter, dfailure, dresponse,
                   dstatus>>

\* the renderer raises while fetching the next node: the except branch of
\* crawl_sub_urls logs and re-raises, the route answers 500
DeepFetchRaises ==
    /\ dpc = "streaming"
    /\ dpc' = "raised"
    /\ dfailure' = "fetch"
    /\ dstatus' = 500
    /\ UNCHANGED <<otherVars, now, total_start_time, batchVars, crawler, instances, request,
                   crawl_strategy, config, url_filter, stream, dresponse>>

\* the stream ends: crawl_sub_urls builds and returns its dict, the route
\* validates it as a CrawlSubUrlsResponse
DeepReturn ==
    /\ dpc = "streaming"
    /\ \E sub_urls \in SubUrls(AllUrls(stream), request.url) :
           dresponse' = [url |-> request.url,
                         sub_urls |-> sub_urls,
                         metadata |-> MetadataAfter(stream, Len(stream)),
                         success |-> TRUE,
                         urls_found |-> Len(sub_urls),
                         crawl_depth |-> request.depth,
                         max_pages |-> request.max_pages,
                         strategy |-> request.strategy]
    /\ dpc' = "done"
    /\ dfailure' = IF ValidSubUrlsResponse(dresponse') THEN "none"
                   ELSE "response validation"
    /\ dstatus' = IF ValidSubUrlsResponse(dresponse') THEN 200 ELSE 500
    /\ UNCHANGED <<otherVars, now, total_start_time, batchVars, crawler, instances, request,
                   crawl_strategy, config, url_filter, stream>>

(* ----------------------- concurrent batch crawls ---------------------- *)
\* the /crawl-urls requests that are served at the same time
ConcurrentRequests == {1, 2}

\* what they ask for, and what the renderer does for them
ConcurrentUrlLists ==
    {<<"https://a.test/p1">>, <<"https://a.test/p1", "https://a.test/p2">>,
     <<"https://a.test/p2", "https://a.test/p1">>}
ConcurrentContentType == "markdown"
ConcurrentOutcomes ==
    {[kind |-> "page", page |-> PageOk, message |-> ""],
     [kind |-> "fetch raised", page |-> BlankResult,
      message |-> "net::ERR_NAME_NOT_RESOLVED"]}
ConcurrentDelays == {7}
ConcurrentDeepRequests ==
    {[url |-> Seed, depth |-> 1, max_pages |-> 10, strategy |-> "bfs",
      exclude_patterns |-> << >>, js_timeout |-> 1000]}
ConcurrentPages ==
    {[BlankResult EXCEPT !.url = PyStr("https://a.test/p1"),
                         !.success = PyBool(TRUE),
                         !.metadata = PyDict([title |-> PyStr("Home")])]}

\* (mutant) results is one list of the service, shared by the calls
StoreResultsShared(all, r, rs) == [q \in DOMAIN all |-> rs]

\* results is a local of the call: an append changes the list of that
\* call only
StoreResults(all, r, rs) == [all EXCEPT ![r] = rs]

ConcurrentIdle ==
    /\ cpc = [r \in ConcurrentRequests |-> "idle"]
    /\ curls = [r \in ConcurrentRequests |-> << >>]
    /\ ci = [r \in ConcurrentRequests |-> 0]
    /\ cresults = [r \in ConcurrentRequests |-> << >>]
    /\ coutcomes = [r \in ConcurrentRequests |-> << >>]
    /\ url_start_time = [r \in ConcurrentRequests |-> 0]
    /\ ctotal_start_time = [r \in ConcurrentRequests |-> 0]
    /\ cresponse = [r \in ConcurrentRequests |-> NoResponse]
    /\ cstatus = [r \in ConcurrentRequests |-> 0]
    /\ cfetchLog = << >>

\* the variables the concurrent requests do not touch
notConcVars == <<total_start_time, batchVars, deepVars, extractVars,
                 retryVars, lifeVars>>

\* request r arrives; crawl_urls runs up to its first fetch, where it is
\* suspended: the check of the crawler and initialize() run without a
\* suspension in between
ConcurrentStart(r, us) ==
    /\ cpc[r] = "idle"
    /\ crawler' = "renderer"
    /\ instances' = InstancesAfterInit(crawler, instances)
    /\ curls' = [curls EXCEPT ![r] = us]
    /\ ctotal_start_time' = [ctotal_start_time EXCEPT ![r] = now]
    /\ url_start_time' = [url_start_time EXCEPT ![r] = now]
    /\ cpc' = [cpc EXCEPT ![r] = "loop"]
    /\ UNCHANGED <<notConcVars, now, ci, cresults, coutcomes, cresponse,
                   cstatus, cfetchLog>>

\* ... and initialize() raises: the crawler stays None, the route answers
\* 500
ConcurrentStartInitFails(r, us) ==
    /\ cpc[r] = "idle"
    /\ crawler = "None"
    /\ curls' = [curls EXCEPT ![r] = us]
    /\ ctotal_start_time' = [ctotal_start_time EXCEPT ![r] = now]
    /\ cpc' = [cpc EXCEPT ![r] = "raised"]
    /\ cstatus' = [cstatus EXCEPT ![r] = 500]
    /\ UNCHANGED <<notConcVars, crawler, instances, now, ci, cresults,
                   coutcomes, url_start_time, cresponse, cfetchLog>>

\* the fetch request r waits for completes after d more milliseconds; r
\* resumes, appends its entry and runs up to its next fetch
ConcurrentFetch(r, o, d) ==
    /\ cpc[r] = "loop"
    /\ ci[r] < Len(curls[r])
    /\ ci' = [ci EXCEPT ![r] = @ + 1]
    /\ now' = now + d
    /\ cfetchLog' = Append(cfetchLog, r)
    /\ coutcomes' = [coutcomes EXCEPT ![r] = Append(@, o)]
    /\ \E t \in Round2(now' - url_start_time[r], 10) :
           cresults' = StoreResults(cresults, r,
                           AppendResult(cresults[r],
                               IterationEntry(curls[r][ci[r] + 1], o,
                                              ConcurrentContentType, t)))
    /\ url_start_time' = [url_start_time EXCEPT ![r] = now']
    /\ UNCHANGED <<notConcVars, crawler, instances, cpc, curls,
                   ctotal_start_time, cresponse, cstatus>>

\* the loop of request r is over: crawl_urls returns, the route answers
ConcurrentReturn(r) ==
    /\ cpc[r] = "loop"
    /\ ci[r] = Len(curls[r])
    /\ \E total \in Round2(now - ctotal_start_time[r], 10) :
       \E avg \in AverageTime(total, Len(curls[r])) :
           cresponse' = [cresponse EXCEPT ![r] =
                            [results |-> cresults[r],
                             success |-> AllSuccess(cresults[r]),
                             total_execution_time_seconds |-> total,
                             urls_processed |-> Len(curls[r]),
                             average_time_per_url |-> avg]]
    /\ cpc' = [cpc EXCEPT ![r] = "done"]
    /\ cstatus' = [cstatus EXCEPT ![r] = 200]
    /\ UNCHANGED <<notConcVars, crawler, instances, now, curls, ci, cresults,
                   coutcomes, url_start_time, ctotal_start_time, cfetchLog>>

(* --------------------------- specifications ---------------------------- *)
vars == <<crawler, instances, now, total_start_time, batchVars, deepVars,
          otherVars>>

RequestsInit ==
    /\ crawler = "None"
    /\ instances = 0
    /\ now = 0
    /\ total_start_time = 0
    /\ bpc = "idle"
    /\ urls = << >>
    /\ content_type = ""
    /\ kwargs = NoKwargs
    /\ run_config = NoRunConfig
    /\ i = 0
    /\ results = << >>
    /\ fetchLog = << >>
    /\ outcomes = << >>
    /\ bresponse = NoResponse
    /\ bstatus = 0
    /\ dpc = "idle"
    /\ request = NoRequest
    /\ crawl_strategy = NoStrategy
    /\ config = NoRunConfig
    /\ url_filter = << >>
    /\ stream = << >>
    /\ dfailure = "none"
    /\ dresponse = NoDeepResponse
    /\ dstatus = 0

\* no extraction function is under test
ExtractIdle ==
    /\ xpc = "idle"
    /\ xresult = BlankResult
    /\ xformat = ""
    /\ xout = PyNone

\* no wrapper of retry_with_backoff is under test
RetryIdle ==
    /\ rpc = "idle"
    /\ coroutine = FALSE
    /\ max_retries = 0
    /\ base_delay = 0
    /\ attempt = 0
    /\ calls = << >>
    /\ sleeps = << >>
    /\ rresult = [kind |-> "none", of |-> 0]

\* the service was constructed: nothing closed, nothing asked
NoHealth == [status |-> "", crawler_ready |-> FALSE]
NoCall == [op |-> "none", result |-> "none"]
LifecycleIdle ==
    /\ closed = FALSE
    /\ health = NoHealth
    /\ healthInstances = 0
    /\ lastCall = NoCall

Init ==
    /\ RequestsInit
    /\ ExtractIdle
    /\ ConcurrentIdle
    /\ RetryIdle
    /\ LifecycleIdle

\* lifespan() of main.py: the service is initialized before any request
Startup ==
    /\ crawler = "None"
    /\ bpc = "idle"
    /\ dpc = "idle"
    /\ crawler' = "renderer"
    /\ instances' = instances + 1
    /\ \A r \in ConcurrentRequests : cpc[r] = "idle"
    /\ UNCHANGED <<otherVars, now, total_start_time, batchVars, deepVars>>

\* the urls lists of at most MaxUrls urls
UrlLists == UNION {[1..n -> BatchUrls] : n \in 0..MaxUrls}

BatchNext ==
    \/ Startup
    \/ \E us \in UrlLists : \E req \in BatchRequests :
           BatchStart(us, req.content_type, req.kwargs)
    \/ \E us \in UrlLists : \E req \in BatchRequests :
           BatchStartInitFails(us, req.content_type, req.kwargs)
    \/ \E o \in FetchOutcomes : \E d \in Delays : BatchFetch(o, d)
    \/ BatchReturn

\* one /crawl-urls request
BatchSpec == Init /\ [][BatchNext]_vars

DeepNext ==
    \/ Startup
    \/ \E req \in DeepRequests : DeepStart(req)
    \/ \E req \in DeepRequests : DeepStartInitFails(req)
    \/ \E result \in DeepPages : DeepResult(result)
    \/ DeepFetchRaises
    \/ DeepReturn

\* one /crawl-suburls request
DeepSpec == Init /\ [][DeepNext]_vars

ConcurrentNext ==
    \/ Startup
    \/ \E r \in ConcurrentRequests : \E us \in ConcurrentUrlLists :
           ConcurrentStart(r, us)
    \/ \E r \in ConcurrentRequests : \E us \in ConcurrentUrlLists :
           ConcurrentStartInitFails(r, us)
    \/ \E r \in ConcurrentRequests : \E o \in ConcurrentOutcomes :
       \E d \in ConcurrentDelays : ConcurrentFetch(r, o, d)
    \/ \E r \in ConcurrentRequests : ConcurrentReturn(r)
    \/ \E req \in ConcurrentDeepRequests : DeepStart(req)
    \/ \E req \in ConcurrentDeepRequests : DeepStartInitFails(req)
    \/ \E result \in ConcurrentPages : DeepResult(result)
    \/ DeepFetchRaises
    \/ DeepReturn

\* two /crawl-urls requests and one /crawl-suburls request served on one
\* event loop: a request is suspended only while the renderer fetches
ConcurrentSpec == Init /\ [][ConcurrentNext]_vars

(* ------------------------------ claims --------------------------------- *)
Abs(x) == IF x >= 0 THEN x ELSE 0 - x

\* C1: a batch crawl returns one result entry per input url, the k-th
\* entry carrying the k-th url of the input (duplicates kept), and
\* urls_processed is the length of the input, whatever fetches failed.
C1_ResultsFollowInput ==
    bpc = "done" =>
        /\ Len(bresponse.results) = Len(urls)
        /\ \A k \in 1..Len(urls) : bresponse.results[k].url = urls[k]
        /\ bresponse.urls_processed = Len(urls)

\* C1 witness: a finished batch over the same url twice, the first fetch
\* of which raised
C1_Witness ==
    /\ bpc = "done"
    /\ Len(urls) = 2
    /\ urls[1] = urls[2]
    /\ outcomes[1].kind = "fetch raised"
    /\ outcomes[2].kind = "page"
    /\ Len(bresponse.results) = 2

\* C2: when the fetch or the extraction of a url raises, its entry has
\* success false, an error field with the text of the exception, empty
\* content and empty metadata;
\* the batch goes on: a finished batch asked the renderer for every url of
\* the input, in order, and only a failed initialization ends the request
\* without a response.
C2_FailureStaysInItsEntry ==
    /\ \A k \in 1..Len(results) :
           outcomes[k].kind \in RaiseKinds =>
               /\ ~ Truthy(results[k].success)
               /\ "error" \in DOMAIN results[k]
               /\ results[k].error = outcomes[k].message
               /\ results[k].content = PyStr("")
               /\ results[k].metadata = EmptyDict
    /\ bpc = "done" => fetchLog = urls /\ bresponse.results = results
    /\ bpc = "raised" => fetchLog = << >>

\* C2 witness: a finished batch whose first url raised and whose second
\* url was fetched and succeeded
C2_Witness ==
    /\ bpc = "done"
    /\ Len(urls) = 2
    /\ outcomes[1].kind \in RaiseKinds
    /\ outcomes[2] = [kind |-> "page", page |-> PageOk, message |-> ""]
    /\ fetchLog[2] = urls[2]
    /\ Truthy(bresponse.results[2].success)
    /\ "error" \notin DOMAIN bresponse.results[2]

\* a fetch that ended as a failure: it raised, or the renderer's result
\* says success = false
FetchFailed(o) ==
    \/ o.kind \in RaiseKinds
    \/ o.kind = "page" /\ HasAttr(o.page, "success") /\ ~ Truthy(o.page.success)

\* C3: the success flag of a batch response is the conjunction of the
\* success flags of its entries: true for an empty input, false as soon
\* as one fetch raised or one renderer result reports success = false.
C3_SuccessIsConjunction ==
    bpc = "done" =>
        /\ bresponse.success =
               (\A k \in 1..Len(bresponse.results) :
                    bresponse.results[k].success = PyBool(TRUE))
        /\ Len(urls) = 0 => bresponse.success
        /\ bresponse.success = ~ \E k \in 1..Len(outcomes) : FetchFailed(outcomes[k])

\* C3 witness: a finished batch of a good page and a page reported failed
C3_Witness ==
    /\ bpc = "done"
    /\ Len(urls) = 2
    /\ outcomes[1].page = PageOk
    /\ outcomes[2].page = PageFailed
    /\ ~ bresponse.success

\* C4 (as claimed): average_time_per_url is exactly total_execution_time /
\* urls_processed for a non-empty batch, and 0 for an empty one.
C4_AverageIsExactQuotient ==
    bpc = "done" =>
        IF bresponse.urls_processed > 0
        THEN bresponse.average_time_per_url * bresponse.urls_processed
                 = bresponse.total_execution_time_seconds
        ELSE bresponse.average_time_per_url = 0

\* C4 (amended): average_time_per_url is total_execution_time /
\* urls_processed rounded to a hundredth of a second (at most half a
\* hundredth away from the quotient) for a non-empty batch, and 0 for an
\* empty one.
C4_AverageIsRoundedQuotient ==
    bpc = "done" =>
        IF bresponse.urls_processed > 0
        THEN 2 * Abs(bresponse.average_time_per_url * bresponse.urls_processed
                       - bresponse.total_execution_time_seconds)
                 <= bresponse.urls_processed
        ELSE bresponse.average_time_per_url = 0

\* C4 witness: a finished batch of two urls whose total time is not twice
\* the reported average
C4_Witness ==
    /\ bpc = "done"
    /\ bresponse.urls_processed = 2
    /\ bresponse.total_execution_time_seconds > 0
    /\ bresponse.average_time_per_url * 2
           # bresponse.total_execution_time_seconds

\* C5: a url matching a default or a caller-supplied exclusion pattern
\* never appears in the sub_urls of a deep crawl that was answered (here:
\* of one whose stream began with the seed and stayed within max_pages).
C5_ExcludedNeverInSubUrls ==
    /\ dpc = "done"
    /\ dstatus = 200
    /\ Len(stream) >= 2
    /\ stream[1].url = PyStr(request.url)
    /\ Len(stream) <= request.max_pages
    =>
        \A k \in 1..Len(dresponse.sub_urls) :
            ~ IsExcluded(dresponse.sub_urls[k], url_filter)

\* C6: whatever the renderer streams, sub_urls holds no url twice, does
\* not hold the seed, and urls_found is its length.
C6_SubUrlsAreDistinct ==
    dpc = "done" =>
        /\ \A j, k \in 1..Len(dresponse.sub_urls) :
               dresponse.sub_urls[j] = dresponse.sub_urls[k] => j = k
        /\ \A k \in 1..Len(dresponse.sub_urls) :
               dresponse.sub_urls[k] # request.url
        /\ dresponse.urls_found = Len(dresponse.sub_urls)

\* C6 witness: a finished deep crawl whose stream reported a sub-url twice
\* and the seed once
C6_Witness ==
    /\ dpc = "done"
    /\ Len(stream) = 3
    /\ stream[1].url = PyStr(request.url)
    /\ stream[2].url = stream[3].url
    /\ stream[2].url = PyStr("https://a.test/p1")
    /\ dresponse.sub_urls = <<"https://a.test/p1">>

\* C8: a fetch failure of a node never aborts a deep crawl: a crawl that
\* has found sub-urls does not end by raising, it returns them.
C8_NodeFailureNeverAborts ==
    dpc = "raised" /\ AllUrls(stream) \ {request.url} # {} =>
        dfailure = "initialize"

\* C9: a request whose renderer was acquired and whose crawl ran to its
\* end is answered with HTTP success; HTTP 500 is no answer to a crawl
\* that returned its result.
C9_ReturnedCrawlAnswers200 ==
    /\ dpc = "done" => dstatus = 200
    /\ bpc = "done" => bstatus = 200

(* -------------------- the extraction functions ------------------------- *)
\* everything but the variables of the extraction functions
requestVars == <<crawler, instances, now, total_start_time, batchVars,
                 deepVars>>
notExtractVars == <<requestVars, concVars, retryVars, lifeVars>>

\* a content field is missing, empty or filled with a text that names it
FieldValues(text) == {Absent, PyStr(""), PyStr(text)}
\* the markdown of crawl4ai is an object, not a string
MarkdownObject == PyDict([raw_markdown |-> PyStr("md")])

\* renderer results with every combination of content fields
ContentInputs ==
    {[BlankResult EXCEPT !.markdown = m, !.html = h, !.text = x,
                         !.markdown_content = mc, !.html_content = hc,
                         !.text_content = xc] :
        m \in FieldValues("md") \cup {MarkdownObject},
        h \in FieldValues("html"), x \in FieldValues("text"),
        mc \in FieldValues("md_c"), hc \in FieldValues("html_c"),
        xc \in FieldValues("text_c")}

\* renderer results with every combination of the fields _extract_metadata
\* looks at
MetadataInputs ==
    {[BlankResult EXCEPT !.metadata = md, !.title = ti,
                         !.markdown_content = mc, !.markdown = m] :
        md \in {Absent, PyNone, EmptyDict, PyDict([title |-> PyStr("Meta")])},
        ti \in {Absent, PyStr(""), PyStr("T")},
        mc \in {Absent, PyStr(""), PyStr("# A"), PyStr("plain")},
        m \in {Absent, PyStr("# B"), PyStr("intro\n#  C d\nmore"),
               PyStr("#nospace")}}

\* renderer results with links in every place _extract_links looks at
LinkInputs ==
    {[BlankResult EXCEPT !.links = l, !.html_content = hc, !.html = h,
                         !.markdown_content = mc, !.markdown = m] :
        l \in {Absent, PyList(<< >>),
               PyList(<<"https://x.com/a", "/b", " ", "https://x.com/a">>),
               PyList(<<"mailto:a@x.com">>),
               PyDict([internal |-> PyList(<<"https://x.com/a">>),
                       external |-> PyList(<< >>)])},
        hc \in {Absent, PyStr("<a href='/c'>c</a><a href='/c'>d</a>")},
        h \in {Absent, PyStr("<a href=\"https://x.com/a\">"),
               PyStr("<a href=\"#top\">t</a><a href=\"/b\">b</a>")},
        mc \in {Absent, PyStr("[t](https://x.com/m) and [u](rel.html)")},
        m \in {Absent, PyStr("see [t](/m), [t2](/m)")}}

ExtractInputs == ContentInputs \cup MetadataInputs \cup LinkInputs

\* the extraction functions are called on one renderer result
ExtractInit ==
    /\ RequestsInit
    /\ ConcurrentIdle
    /\ RetryIdle
    /\ LifecycleIdle
    /\ xpc = "input"
    /\ xresult \in ExtractInputs
    /\ xformat = ""
    /\ xout = PyNone

\* _extract_content(result, content_type)
ApplyExtractContent(ctype) ==
    /\ xpc = "input"
    /\ xpc' = "content"
    /\ xformat' = ctype
    /\ xout' = ExtractContent(xresult, ctype)
    /\ UNCHANGED <<xresult, notExtractVars>>

\* _extract_metadata(result)
ApplyExtractMetadata ==
    /\ xpc = "input"
    /\ xpc' = "metadata"
    /\ xout' = ExtractMetadata(xresult)
    /\ UNCHANGED <<xresult, xformat, notExtractVars>>

\* _extract_links(result)
ApplyExtractLinks ==
    /\ xpc = "input"
    /\ xpc' = "links"
    /\ xout' = PyList(ExtractLinks(xresult))
    /\ UNCHANGED <<xresult, xformat, notExtractVars>>

ExtractNext ==
    \/ \E ctype \in ContentTypes : ApplyExtractContent(ctype)
    \/ ApplyExtractMetadata
    \/ ApplyExtractLinks

\* one call of an extraction function on one result
ExtractSpec == ExtractInit /\ [][ExtractNext]_vars

\* the representation named attr of a result: the value under the
\* canonical field name or, failing that, under the alternate one
Representation(result, attr) ==
    IF Filled(result, attr) THEN ToStr(result[attr])
    ELSE IF Filled(result, ContentField(attr))
    THEN ToStr(result[ContentField(attr)])
    ELSE PyStr("")

\* the first non-empty representation in the order markdown, html, text
FirstRepresentation(result) ==
    IF Representation(result, "markdown") # PyStr("")
    THEN Representation(result, "markdown")
    ELSE IF Representation(result, "html") # PyStr("")
    THEN Representation(result, "html")
    ELSE Representation(result, "text")

\* C11 (as claimed): for a format f of markdown, html, text the function
\* returns the representation f when it is non-empty, otherwise the first
\* non-empty representation in the order markdown, html, text, and ""
\* when there is none.
C11_RequestedThenFirstRepresentation ==
    xpc = "content" /\ xformat # "all" =>
        xout = IF Representation(xresult, xformat) # PyStr("")
               THEN Representation(xresult, xformat)
               ELSE FirstRepresentation(xresult)

\* the fields in the order _extract_content looks at them for format f
LookupOrder(f) ==
    <<f, ContentField(f), "markdown", "html", "text",
      "markdown_content", "html_content", "text_content">>

\* C11 (amended): for a format f of markdown, html, text the function
\* returns, as a string, the first non-empty value in the order: field f,
\* field f_content, markdown, html, text, markdown_content, html_content,
\* text_content; and "" when all of them are missing or empty.
C11_FirstFilledInLookupOrder ==
    xpc = "content" /\ xformat # "all" =>
        /\ xout.t = "str"
        /\ (\A k \in 1..8 : ~ Filled(xresult, LookupOrder(xformat)[k]))
               => xout = PyStr("")
        /\ \A k \in 1..8 :
               /\ Filled(xresult, LookupOrder(xformat)[k])
               /\ \A j \in 1..(k - 1) : ~ Filled(xresult, LookupOrder(xformat)[j])
               => xout = ToStr(xresult[LookupOrder(xformat)[k]])

\* C11 witness: text is asked for and missing, markdown exists under the
\* alternate name only and html under the canonical one: html is returned
C11_Witness ==
    /\ xpc = "content"
    /\ xformat = "text"
    /\ xresult.text = Absent
    /\ xresult.text_content = Absent
    /\ xresult.markdown = Absent
    /\ xresult.markdown_content = PyStr("md_c")
    /\ xresult.html = PyStr("html")
    /\ xout = PyStr("html")

\* the representations a result has
Present(result) ==
    {a \in {"markdown", "html", "text"} : Representation(result, a) # PyStr("")}

\* C12 (as claimed): for format "all" the function returns a mapping whose
\* keys are the representations the result has, each with the value of
\* the canonical name if that is non-empty and of the alternate name
\* otherwise; a result with no content yields an empty mapping.
C12_AllIsMappingOfPresent ==
    xpc = "content" /\ xformat = "all" =>
        /\ xout.t = "dict"
        /\ DOMAIN xout.d = Present(xresult)
        /\ \A a \in Present(xresult) : xout.d[a] = Representation(xresult, a)

\* C12 (amended): as claimed for a result that has content; a result with
\* no content yields the empty string, not an empty mapping.
C12_AllIsMappingOrEmptyString ==
    xpc = "content" /\ xformat = "all" =>
        IF Present(xresult) = {} THEN xout = PyStr("")
        ELSE /\ xout.t = "dict"
             /\ DOMAIN xout.d = Present(xresult)
             /\ \A a \in Present(xresult) :
                    xout.d[a] = Representation(xresult, a)

\* C12 witness: markdown is filled under both names, html under the
\* alternate name only, text under none
C12_Witness ==
    /\ xpc = "content"
    /\ xformat = "all"
    /\ xresult.markdown = PyStr("md")
    /\ xresult.markdown_content = PyStr("md_c")
    /\ xresult.html = PyStr("")
    /\ xresult.html_content = PyStr("html_c")
    /\ Present(xresult) = {"markdown", "html"}
    /\ xout = PyDict([markdown |-> PyStr("md"), html |-> PyStr("html_c")])

\* what the three strategies produce, tried until one produces something:
\* a non-empty metadata map, a non-empty title field, a heading line of
\* the markdown content
MetadataByFallback(result) ==
    IF HasAttr(result, "metadata") /\ IsDict(result.metadata)
           /\ Truthy(result.metadata)
    THEN result.metadata
    ELSE IF HasAttr(result, "title") /\ Truthy(result.title)
    THEN PyDict([title |-> result.title])
    ELSE IF HasAttr(result, "markdown_content")
                /\ TitleFromMarkdown(result.markdown_content) # EmptyDict
    THEN TitleFromMarkdown(result.markdown_content)
    ELSE IF HasAttr(result, "markdown")
    THEN TitleFromMarkdown(result.markdown)
    ELSE EmptyDict

\* C13: the metadata map, the title field and the heading of the markdown
\* content are tried in this order; the first that produces something
\* wins and a later one runs whenever every earlier one produced nothing
\* (an empty or non-map metadata field, an empty title field).
C13_FallbackRunsWhenNothingProduced ==
    xpc = "metadata" => xout = MetadataByFallback(xresult)

\* a result whose only content is an html field with one anchor
HtmlOnlyExample ==
    [BlankResult EXCEPT !.html = PyStr("<a href=\"https://x.com/a\">")]

\* C14: whatever the source of the links, every returned link starts with
\* http://, https:// or /, and no link is returned twice; a result with
\* only an html field holding <a href="https://x.com/a"> yields
\* ["https://x.com/a"].
C14_LinksArePrefixedAndDistinct ==
    xpc = "links" =>
        /\ \A k \in 1..Len(xout.d) : HasLinkPrefix(xout.d[k])
        /\ \A j, k \in 1..Len(xout.d) : xout.d[j] = xout.d[k] => j = k
        /\ xresult = HtmlOnlyExample => xout.d = <<"https://x.com/a">>

\* what one page result offers as metadata: its metadata attribute, else a
\* mapping made of its title; Absent when it has neither
Produced(result) ==
    IF HasAttr(result, "metadata") THEN result.metadata
    ELSE IF HasAttr(result, "title") THEN PyDict([title |-> result.title])
    ELSE Absent

\* the positions of the stream whose result produced any metadata
Producers == {k \in 1..Len(stream) : Truthy(Produced(stream[k]))}

\* C15: the metadata of a deep-crawl response is that of the first result
\* of the stream that produced any; results before it that carry none (or
\* empty or null metadata) are skipped, later ones never replace it, and the
\* returned metadata is always a mapping, empty when no page produced any.
C15_MetadataOfFirstProducerIsMapping ==
    dpc = "done" =>
        /\ IsDict(dresponse.metadata)
        /\ Producers # {} =>
               \E k \in Producers :
                   /\ \A j \in Producers : k <= j
                   /\ dresponse.metadata = Produced(stream[k])
        /\ Producers = {} => dresponse.metadata = EmptyDict

\* the run config carries timeout as its page_timeout
CarriesTimeout(cfg, timeout) ==
    "page_timeout" \in DOMAIN cfg /\ cfg.page_timeout = timeout

\* C16: every fetch issued to the renderer, in batch mode and in deep-crawl
\* mode alike, carries the js_timeout of the request as its per-page
\* timeout.
C16_EveryFetchCarriesTimeout ==
    /\ bpc = "loop" => CarriesTimeout(run_config, kwargs.js_timeout)
    /\ dpc = "streaming" => CarriesTimeout(config, request.js_timeout)

\* C17: however concurrent crawl_urls and crawl_sub_urls requests
\* interleave, at most one renderer is ever created, and once the crawler
\* reference is set no step replaces it or creates another renderer.
C17_AtMostOneRenderer ==
    /\ [](instances <= 1)
    /\ [](crawler = "None" <=> instances = 0)
    /\ [][crawler # "None" =>
              crawler' = crawler /\ instances' = instances]_vars

\* C17 witness: the three requests are in flight at once, none of them
\* finished, on the one renderer the first of them made
C17_Witness ==
    /\ cpc[1] = "loop" /\ ci[1] < Len(curls[1])
    /\ cpc[2] = "loop" /\ ci[2] < Len(curls[2])
    /\ dpc = "streaming"
    /\ instances = 1

\* C18: when two batch requests run concurrently and their fetches
\* interleave, the response of each lists exactly its own urls in its own
\* order, each entry being the one its own fetch of that url produced, and
\* its success flag and urls_processed follow from its own fetches only.
C18_ConcurrentBatchesAreIsolated ==
    \A r \in ConcurrentRequests :
        cpc[r] = "done" =>
            /\ Len(cresponse[r].results) = Len(curls[r])
            /\ \A k \in 1..Len(curls[r]) :
                   /\ cresponse[r].results[k].url = curls[r][k]
                   /\ cresponse[r].results[k] =
                          IterationEntry(curls[r][k], coutcomes[r][k],
                              ConcurrentContentType,
                              cresponse[r].results[k].execution_time_seconds)
            /\ cresponse[r].success =
                   ~ \E k \in 1..Len(curls[r]) : FetchFailed(coutcomes[r][k])
            /\ cresponse[r].urls_processed = Len(curls[r])

\* C18 witness: both requests are answered, their fetches alternated, they
\* asked for different url lists, and only the fetches of one of them
\* failed
C18_Witness ==
    /\ cpc[1] = "done" /\ cpc[2] = "done"
    /\ cfetchLog = <<1, 2, 1, 2>>
    /\ curls[1] # curls[2]
    /\ cresponse[1].success
    /\ ~ cresponse[2].success

(* ------------------------- retry_with_backoff -------------------------- *)
MaxRetries == 3
\* the values of max_retries and of base_delay tried
RetryCounts == (0 - 1)..MaxRetries
BaseDelays == {1, 2, 3}
\* what a call of func does: it returns, it raises an Exception, or it
\* raises something that is not an Exception (a KeyboardInterrupt, a
\* cancellation), which no except clause of the wrapper catches
CallKinds == {"return", "raise", "interrupt"}

notRetryVars == <<requestVars, extractVars, concVars, lifeVars>>

\* the wrapper of a func is called
RetryInit ==
    /\ RequestsInit
    /\ ExtractIdle
    /\ ConcurrentIdle
    /\ LifecycleIdle
    /\ rpc = "called"
    /\ coroutine \in BOOLEAN
    /\ max_retries \in RetryCounts
    /\ base_delay \in BaseDelays
    /\ attempt = 0
    /\ calls = << >>
    /\ sleeps = << >>
    /\ rresult = [kind |-> "none", of |-> 0]

\* (mutant) the same delay after every failed attempt
BackoffDelayConstant(base, k) == base

\* delay = base_delay * (2 ** attempt)
BackoffDelay(base, k) == base * 2 ^ k

\* for attempt in range(max_retries): the loop is entered with attempt 0,
\* or range() is empty and the wrapper falls off its end, returning None
RetryEnter ==
    /\ rpc = "called"
    /\ IF max_retries > 0
       THEN rpc' = "calling" /\ rresult' = rresult
       ELSE rpc' = "returned" /\ rresult' = [kind |-> "None", of |-> 0]
    /\ UNCHANGED <<notRetryVars, coroutine, max_retries, base_delay, attempt,
                   calls, sleeps>>

\* one pass of the loop body: func is called; its value is returned, or
\* its Exception is re-raised on the last attempt and slept on otherwise;
\* anything else it raises leaves the wrapper at once
RetryCall(kind) ==
    /\ rpc = "calling"
    /\ calls' = Append(calls, kind)
    /\ CASE kind = "return" ->
              /\ rpc' = "returned"
              /\ rresult' = [kind |-> "value", of |-> Len(calls')]
              /\ sleeps' = sleeps
         [] kind = "raise" /\ attempt = max_retries - 1 ->
              /\ rpc' = "raised"
              /\ rresult' = [kind |-> "exception", of |-> Len(calls')]
              /\ sleeps' = sleeps
         [] kind = "raise" /\ attempt # max_retries - 1 ->
              /\ rpc' = "sleeping"
              /\ rresult' = rresult
              /\ sleeps' = Append(sleeps, BackoffDelay(base_delay, attempt))
         [] OTHER ->
              /\ rpc' = "raised"
              /\ rresult' = [kind |-> "interrupt", of |-> Len(calls')]
              /\ sleeps' = sleeps
    /\ UNCHANGED <<notRetryVars, coroutine, max_retries, base_delay, attempt>>

\* the sleep is over: the loop goes to its next attempt
RetryWake ==
    /\ rpc = "sleeping"
    /\ attempt' = attempt + 1
    /\ rpc' = "calling"
    /\ UNCHANGED <<notRetryVars, coroutine, max_retries, base_delay, calls,
                   sleeps, rresult>>

RetryNext ==
    \/ RetryEnter
    \/ \E kind \in CallKinds : RetryCall(kind)
    \/ RetryWake

\* one call of a wrapper made by retry_with_backoff
RetrySpec == RetryInit /\ [][RetryNext]_vars

\* how many of the calls made so far failed with an Exception
FailedCalls == {k \in 1..Len(calls) : calls[k] = "raise"}

\* C19: for max_retries >= 1 the wrapper calls func at most max_retries
\* times, stops at the first call that succeeds and returns its result,
\* sleeps base_delay * 2^k after the k-th failed attempt (k from 0) but not
\* after the last one, and re-raises the exception of the last call when
\* all max_retries calls failed; for max_retries <= 0 it never calls func
\* and returns None without raising. (A failed attempt is a call that
\* raised an Exception.)
C19_RetryWithBackoff ==
    /\ max_retries >= 1 =>
           /\ Len(calls) <= max_retries
           /\ \A k \in 1..(Len(calls) - 1) : calls[k] = "raise"
           /\ rpc = "returned" =>
                  /\ calls[Len(calls)] = "return"
                  /\ rresult = [kind |-> "value", of |-> Len(calls)]
           /\ \A k \in FailedCalls :
                  k < max_retries /\ rpc # "calling" /\ rpc # "called" =>
                      /\ k <= Len(sleeps)
                      /\ sleeps[k] = base_delay * 2 ^ (k - 1)
           /\ Len(sleeps) <= Cardinality(FailedCalls \ {max_retries})
           /\ Len(sleeps) < max_retries
           /\ FailedCalls = 1..max_retries =>
                  /\ rpc = "raised"
                  /\ rresult = [kind |-> "exception", of |-> max_retries]
           /\ rresult.kind = "exception" => FailedCalls = 1..max_retries
    /\ max_retries <= 0 =>
           /\ calls = << >>
           /\ sleeps = << >>
           /\ rpc \in {"called", "returned"}
           /\ rpc = "returned" => rresult = [kind |-> "None", of |-> 0]

\* C19 witness: all three calls of a wrapper with max_retries = 3 and
\* base_delay = 3 failed; it slept 3 and 6 seconds and re-raised the third
\* exception
C19_Witness ==
    /\ max_retries = 3
    /\ base_delay = 3
    /\ calls = <<"raise", "raise", "raise">>
    /\ sleeps = <<3, 6>>
    /\ rresult = [kind |-> "exception", of |-> 3]

(* ----------------------------- lifecycle ------------------------------- *)
MaxInstances == 2
\* the one-url request made of the service between the lifecycle calls
LifecycleUrlLists == {<<"https://a.test/p1">>}

notLifeVars == <<now, total_start_time, batchVars, deepVars, extractVars,
                 concVars, retryVars>>

\* CrawlerService.initialize, called as lifespan() calls it: a renderer
\* is made and stored, or the AsyncWebCrawler constructor raises and
\* initialize re-raises, leaving the reference as it was
Initialize(ok) ==
    /\ instances < MaxInstances
    /\ IF ok
       THEN /\ crawler' = "renderer"
            /\ instances' = instances + 1
            /\ closed' = FALSE
            /\ lastCall' = [op |-> "initialize", result |-> "returned"]
       ELSE /\ lastCall' = [op |-> "initialize", result |-> "raised"]
            /\ UNCHANGED <<crawler, instances, closed>>
    /\ UNCHANGED <<notLifeVars, health, healthInstances>>

\* (mutant) shutdown clears the reference
CrawlerAfterShutdownCleared(cr) == "None"

\* self.crawler once shutdown has run: shutdown assigns nothing
CrawlerAfterShutdown(cr) == cr

\* CrawlerService.shutdown: without a crawler nothing is done; otherwise
\* close() runs, and an Exception it raises is logged, not re-raised (the
\* renderer may or may not have been closed by then)
Shutdown(closeRaises) ==
    /\ IF crawler = "None"
       THEN closed' = closed /\ ~ closeRaises
       ELSE closed' \in (IF closeRaises THEN {closed, TRUE} ELSE {TRUE})
    /\ crawler' = CrawlerAfterShutdown(crawler)
    /\ lastCall' = [op |-> "shutdown", result |-> "returned"]
    /\ UNCHANGED <<notLifeVars, instances, health, healthInstances>>

\* GET /health: get_health_status (its timestamp is left out)
Health ==
    /\ health' = [status |-> "healthy", crawler_ready |-> crawler # "None"]
    /\ healthInstances' = instances
    /\ lastCall' = [op |-> "health", result |-> "returned"]
    /\ UNCHANGED <<notLifeVars, crawler, instances, closed>>

LifecycleNext ==
    \/ \E ok \in BOOLEAN : Initialize(ok)
    \/ \E closeRaises \in BOOLEAN : Shutdown(closeRaises)
    \/ Health
    \/ \E us \in LifecycleUrlLists : \E req \in BatchRequests :
           BatchStart(us, req.content_type, req.kwargs)
    \/ \E us \in LifecycleUrlLists : \E req \in BatchRequests :
           BatchStartInitFails(us, req.content_type, req.kwargs)
    \/ \E o \in ConcurrentOutcomes : \E d \in ConcurrentDelays : BatchFetch(o, d)
    \/ BatchReturn

\* initialize, shutdown and health calls in any order, around one
\* /crawl-urls request
LifecycleSpec == Init /\ [][LifecycleNext]_vars

=============================================================================
